---- MODULE Spec2Model ----
(***************************************************************************)
(* Model of scripts/update_wiki.py: the wiki publishing pipeline.          *)
(*                                                                         *)
(* The file system is the state: the scratch directory PYDOC_OUTPUT_DIR,   *)
(* the wiki's API subdirectory and the two index files.  File names are    *)
(* sequences of character codes, so that str.endswith, slicing and the     *)
(* code-point order used by sorted() are computed, not assumed.            *)
(* The scratch directory and the wiki checkout are distinct, non-nested    *)
(* directories, as in the GitHub workflow the script is written for.       *)
(***************************************************************************)
EXTENDS Integers, Sequences, FiniteSets, TLC

VARIABLES
    pc,        \* where the run is: the step main calls next, "done" or "failed"
    exitCode,  \* the process exit status, -1 while it runs
    runs,      \* how often the script has been started
    argv,      \* sys.argv[1]: "none" (absent), "notdir" or "dir"
    src,       \* the source tree read by PythonLoader(search_path=["src"])
    scratch,   \* the directory PYDOC_OUTPUT_DIR
    api,       \* the directory <wiki>/api
    home,      \* the file <wiki>/Home.md
    sidebar,   \* the file <wiki>/_Sidebar.md
    generated_md_files,  \* main's local variable
    calls,     \* the calls main has made in this run, with their outcome
    pre,       \* the wiki as it was when this run started
    published  \* the wiki as the successful run right before, on this tree, left it

vars == <<pc, exitCode, runs, argv, src, scratch, api, home, sidebar,
          generated_md_files, calls, pre, published>>

(* ------------------------------ bounds ---------------------------------- *)

\* Number of times the script is started in one behaviour.
MaxRuns == 2
\* Largest number of entries the generator writes in one run.
MaxPages == 2

(* ------------------------------ strings --------------------------------- *)

\* ".md", the suffix tested by item_name.endswith(".md")
MdExt == <<46, 109, 100>>

\* "api"
WIKI_API_SUBDIR == <<97, 112, 105>>

\* File names used in the model.
NameA    == <<97, 46, 109, 100>>           \* "a.md"
NameAB   == <<97, 46, 98, 46, 109, 100>>   \* "a.b.md"  (module a.b)
NameUpB  == <<66, 46, 109, 100>>           \* "B.md"
NameTxt  == <<99, 46, 116, 120, 116>>      \* "c.txt"
NameDirD == <<100, 46, 109, 100>>          \* "d.md", a directory
NameZ    == <<122, 46, 109, 100>>          \* "z.md", only ever left by the past

\* str.endswith
EndsWith(s, suf) ==
    /\ Len(s) >= Len(suf)
    /\ SubSeq(s, Len(s) - Len(suf) + 1, Len(s)) = suf

\* module_filename[:-3]
StripExt(s) == SubSeq(s, 1, Len(s) - 3)

\* Python's str.__lt__: code-point lexicographic order.
RECURSIVE StrLess(_, _)
StrLess(a, b) ==
    IF b = <<>> THEN FALSE
    ELSE IF a = <<>> THEN TRUE
    ELSE IF Head(a) = Head(b) THEN StrLess(Tail(a), Tail(b))
    ELSE Head(a) < Head(b)

\* Insert x into the ascending list s (after equal elements).
RECURSIVE Insert(_, _)
Insert(x, s) ==
    IF s = <<>> THEN <<x>>
    ELSE IF StrLess(x, Head(s)) THEN <<x>> \o s
    ELSE <<Head(s)>> \o Insert(x, Tail(s))

RECURSIVE SortAsc(_)
SortAsc(s) == IF s = <<>> THEN <<>> ELSE Insert(s[Len(s)], SortAsc(SubSeq(s, 1, Len(s) - 1)))

\* A broken sorted(): the list is used in the order os.listdir gave it.
sortedUnsorted(names) == names

\* sorted(module_file_names)
sorted(names) == SortAsc(names)

(* ------------------------------ file system ----------------------------- *)

NoEntries == [n \in {} |-> 0]

Missing == [exists |-> FALSE, entries |-> NoEntries]
EmptyDir == [exists |-> TRUE, entries |-> NoEntries]

RegFile(data) == [kind |-> "file", data |-> data]
SubDir == [kind |-> "dir", data |-> 0]

Absent == [exists |-> FALSE, lines |-> <<>>]
Truncated == [exists |-> TRUE, lines |-> <<>>]
Fixed(s) == [fixed |-> s]
HandWritten == [exists |-> TRUE, lines |-> <<Fixed("hand-written page")>>]

Merge(f, g) == [n \in DOMAIN f \cup DOMAIN g |-> IF n \in DOMAIN g THEN g[n] ELSE f[n]]
Restrict(f, S) == [n \in S |-> f[n]]

\* What an earlier run may have left behind.
StaleEntries == [n \in {NameA, NameZ} |-> RegFile(0)]
StaleDir == [exists |-> TRUE, entries |-> StaleEntries]

\* All orders in which os.listdir may return the names S.
Perms(S) == {p \in [1..Cardinality(S) -> S] : \A i, j \in 1..Cardinality(S) : p[i] = p[j] => i = j}

RECURSIVE SeqToSet(_)
SeqToSet(s) == IF s = <<>> THEN {} ELSE {Head(s)} \cup SeqToSet(Tail(s))

(* ------------------------------ the generator --------------------------- *)

\* Names pydoc-markdown may write into its output directory.
Universe == {NameA, NameAB, NameUpB, NameTxt, NameDirD}

\* A source tree, abstracted by what a complete pm.render() does on it: whether
\* the renderer creates its output directory (mkdir) and the entries it writes
\* (names).  The generator is a function of the tree.
SourceTrees ==
    {s \in [mkdir : BOOLEAN, names : {S \in SUBSET Universe : Cardinality(S) <= MaxPages}] :
        ~s.mkdir => s.names = {}}

NoTree == [mkdir |-> FALSE, names |-> {}]

\* The entries a complete pm.render() of tree s writes; 1 is the content the
\* generator gives a page, 0 the content of a page written in the past.
Rendered(s) == [n \in s.names |-> IF n = NameDirD THEN SubDir ELSE RegFile(1)]

\* A generator adapter that forgets to clean the output directory.
RmtreeScratchSkipped(d) == d

\* if os.path.exists(PYDOC_OUTPUT_DIR): shutil.rmtree(PYDOC_OUTPUT_DIR)
RmtreeScratch(d) == Missing

\* The renderer creates the output directory and writes the entries W of tree s.
RenderInto(d, s, W) ==
    [exists |-> TRUE, entries |-> Merge(d.entries, Restrict(Rendered(s), W))]

\* An orchestrator that swallows the generator's exception and goes on.
OnGenerateErrorContinue == "clear"

\* except Exception: ... sys.exit(1)
OnGenerateError == "failed"

\* An orchestrator that catches a later step's error and goes on.
OnStepErrorContinue(next) == next

\* An exception of a later step is not caught: the interpreter ends with status 1.
OnStepError(next) == "failed"

ExitOf(p) == IF p = "failed" THEN 1 ELSE IF p = "done" THEN 0 ELSE -1

Log(fn, ok) == Append(calls, [fn |-> fn, ok |-> ok])

(* ------------------------------ the publisher --------------------------- *)

\* os.makedirs(wiki_api_path, exist_ok=True)
Makedirs(d) == IF d.exists THEN d ELSE EmptyDir

\* A publisher that only ensures the directory exists.
ClearApiKeep(d) == Makedirs(d)

\* clear_wiki_api_directory: rmtree if it exists, then makedirs.
ClearApi(d) == Makedirs(IF d.exists THEN Missing ELSE d)

\* A filter that forgets the extension test.
CopyFilterNoExt(n, e) == e.kind = "file"

\* os.path.isfile(source_item_path) and item_name.endswith(".md")
CopyFilter(n, e) == e.kind = "file" /\ EndsWith(n, MdExt)

\* The names copied, in the order os.listdir returned the entries.
CopyList(order) == SelectSeq(order, LAMBDA n : CopyFilter(n, scratch.entries[n]))

\* shutil.copy2 of the files named in list into the API subdirectory.
CopyInto(d, list) ==
    [d EXCEPT !.entries = Merge(@, Restrict(scratch.entries, SeqToSet(list)))]

(* ------------------------------ the index generator --------------------- *)

\* A list entry with the link missing its directory.
ItemLineNoDir(f) == [text |-> StripExt(f), target |-> f]

\* f"* [{module_name}]({WIKI_API_SUBDIR}/{module_filename})\n"
ItemLine(f) == [text |-> StripExt(f), target |-> WIKI_API_SUBDIR \o <<47>> \o f]

ItemLines(names) == [i \in 1..Len(names) |-> ItemLine(sorted(names)[i])]

HomePlaceholder ==
    Fixed("No API modules have been documented yet, or no documentation files were generated.")
SidebarPlaceholder == Fixed("No API modules documented.")

\* An index body without the empty-list branch.
HomeBodyNoPlaceholder(names) == ItemLines(names)

\* if module_file_names: <entries> else: <placeholder>
HomeBody(names) == IF names # <<>> THEN ItemLines(names) ELSE <<HomePlaceholder>>

SidebarBody(names) == IF names # <<>> THEN ItemLines(names) ELSE <<SidebarPlaceholder>>

HomeHead ==
    <<Fixed("# Project Documentation"), Fixed(""),
      Fixed("Welcome to the project documentation wiki. This wiki is auto-generated from the Google-style docstrings in the Python code."),
      Fixed(""), Fixed("## API Modules"), Fixed("")>>

SidebarHead == <<Fixed("* [Home](Home.md)"), Fixed(""), Fixed("**API Modules**"), Fixed("")>>

HomeContent(names) == HomeHead \o HomeBody(names)
SidebarContent(names) == SidebarHead \o SidebarBody(names)

\* A writer that opens the file for appending.
WriteFileAppend(old, lines) == [exists |-> TRUE, lines |-> old.lines \o lines]

\* with open(path, "w") as f: f.write(content)
WriteFile(old, lines) == [exists |-> TRUE, lines |-> lines]

(* ------------------------------ the script ------------------------------ *)

\* The wiki as a successful run left it, kept while the script is run again on
\* the same source tree right after it.
NotPublished == [valid |-> FALSE, api |-> Missing, home |-> Absent, sidebar |-> Absent]
Published == [valid |-> TRUE, api |-> api, home |-> home, sidebar |-> sidebar]

\* The wiki as the script finds it when it starts on tree s, and whether the
\* scratch directory then holds a page that the generator will not write.
Snapshot(s) ==
    [api |-> api, home |-> home, sidebar |-> sidebar,
     stalePage |-> \E n \in DOMAIN scratch.entries :
                     /\ scratch.entries[n].kind = "file"
                     /\ EndsWith(n, MdExt)
                     /\ n \notin s.names]

\* A start-up check that only looks for the argument.
ArgOkNoDirCheck(a) == a # "none"

\* len(sys.argv) >= 2 and os.path.isdir(sys.argv[1])
ArgOk(a) == a = "dir"

Init ==
    /\ pc = "idle"
    /\ exitCode = -1
    /\ runs = 0
    /\ argv = "none"
    /\ src = NoTree
    /\ scratch \in {Missing, StaleDir}
    /\ \/ api = Missing /\ home = Absent /\ sidebar = Absent
       \/ api = StaleDir /\ home = HandWritten /\ sidebar = HandWritten
    /\ generated_md_files = <<>>
    /\ calls = <<>>
    /\ pre = [api |-> api, home |-> home, sidebar |-> sidebar, stalePage |-> FALSE]
    /\ published = NotPublished

\* The __main__ block: the script is started (again) with some argument on
\* some source tree.
Script ==
    /\ pc \in {"idle", "done", "failed"}
    /\ runs < MaxRuns
    /\ runs' = runs + 1
    /\ \E a \in {"none", "notdir", "dir"} :
        /\ argv' = a
        /\ IF ArgOk(a)
             THEN /\ pc' = "generate"
                  /\ src' \in SourceTrees
             ELSE /\ pc' = "failed"
                  /\ src' = src
    /\ exitCode' = ExitOf(pc')
    /\ calls' = <<>>
    /\ generated_md_files' = <<>>
    /\ pre' = Snapshot(src')
    /\ published' = IF pc = "done" /\ pc' = "generate" /\ src' = src THEN Published ELSE NotPublished
    /\ UNCHANGED <<scratch, api, home, sidebar>>

\* run_pydoc_markdown_programmatic returns normally.
Generate ==
    /\ pc = "generate"
    /\ LET cleaned == IF scratch.exists THEN RmtreeScratch(scratch) ELSE scratch
       IN  scratch' = IF src.mkdir THEN RenderInto(cleaned, src, src.names) ELSE cleaned
    /\ pc' = "clear"
    /\ calls' = Log("run_pydoc_markdown_programmatic", TRUE)
    /\ UNCHANGED <<exitCode, runs, argv, src, api, home, sidebar, generated_md_files, pre, published>>

\* shutil.rmtree of the scratch directory raises, part of it deleted.
GenerateRmtreeFails ==
    /\ pc = "generate"
    /\ scratch.exists
    /\ \E S \in SUBSET DOMAIN scratch.entries :
         scratch' = [scratch EXCEPT !.entries = Restrict(@, S)]
    /\ pc' = OnGenerateError
    /\ exitCode' = ExitOf(pc')
    /\ calls' = Log("run_pydoc_markdown_programmatic", FALSE)
    /\ UNCHANGED <<runs, argv, src, api, home, sidebar, generated_md_files, pre, published>>

\* pm.render() raises, having written none, some or all of its entries.
GenerateRenderFails ==
    /\ pc = "generate"
    /\ LET cleaned == IF scratch.exists THEN RmtreeScratch(scratch) ELSE scratch
       IN  \/ scratch' = cleaned
           \/ \E W \in SUBSET src.names : src.mkdir /\ scratch' = RenderInto(cleaned, src, W)
    /\ pc' = OnGenerateError
    /\ exitCode' = ExitOf(pc')
    /\ calls' = Log("run_pydoc_markdown_programmatic", FALSE)
    /\ UNCHANGED <<runs, argv, src, api, home, sidebar, generated_md_files, pre, published>>

\* clear_wiki_api_directory returns normally.
Clear ==
    /\ pc = "clear"
    /\ api' = ClearApi(api)
    /\ pc' = "copy"
    /\ calls' = Log("clear_wiki_api_directory", TRUE)
    /\ UNCHANGED <<exitCode, runs, argv, src, scratch, home, sidebar, generated_md_files, pre, published>>

\* shutil.rmtree of the API subdirectory raises, part of it deleted.
ClearFails ==
    /\ pc = "clear"
    /\ api.exists
    /\ \E S \in SUBSET DOMAIN api.entries : api' = [api EXCEPT !.entries = Restrict(@, S)]
    /\ pc' = OnStepError("copy")
    /\ exitCode' = ExitOf(pc')
    /\ calls' = Log("clear_wiki_api_directory", FALSE)
    /\ UNCHANGED <<runs, argv, src, scratch, home, sidebar, generated_md_files, pre, published>>

\* copy_generated_docs_to_wiki returns normally.
Copy ==
    /\ pc = "copy"
    /\ IF ~scratch.exists \/ DOMAIN scratch.entries = {}
         THEN /\ generated_md_files' = <<>>
              /\ api' = api
         ELSE \E order \in Perms(DOMAIN scratch.entries) :
                /\ CopyList(order) # <<>> => api.exists
                /\ generated_md_files' = CopyList(order)
                /\ api' = CopyInto(api, CopyList(order))
    /\ pc' = "home"
    /\ calls' = Log("copy_generated_docs_to_wiki", TRUE)
    /\ UNCHANGED <<exitCode, runs, argv, src, scratch, home, sidebar, pre, published>>

\* shutil.copy2 raises on some file, the files before it already copied.
CopyFails ==
    /\ pc = "copy"
    /\ scratch.exists
    /\ \E order \in Perms(DOMAIN scratch.entries) :
         \E k \in 0..(Len(CopyList(order)) - 1) :
            /\ (k > 0 => api.exists)
            /\ api' = IF k = 0 THEN api ELSE CopyInto(api, SubSeq(CopyList(order), 1, k))
    /\ pc' = OnStepError("home")
    /\ exitCode' = ExitOf(pc')
    /\ calls' = Log("copy_generated_docs_to_wiki", FALSE)
    /\ UNCHANGED <<runs, argv, src, scratch, home, sidebar, generated_md_files, pre, published>>

\* generate_wiki_home returns normally.
Home ==
    /\ pc = "home"
    /\ home' = WriteFile(home, HomeContent(generated_md_files))
    /\ pc' = "sidebar"
    /\ calls' = Log("generate_wiki_home", TRUE)
    /\ UNCHANGED <<exitCode, runs, argv, src, scratch, api, sidebar, generated_md_files, pre, published>>

\* open() raises (file unchanged) or f.write() raises (file truncated).
HomeFails ==
    /\ pc = "home"
    /\ home' \in {home, Truncated}
    /\ pc' = OnStepError("sidebar")
    /\ exitCode' = ExitOf(pc')
    /\ calls' = Log("generate_wiki_home", FALSE)
    /\ UNCHANGED <<runs, argv, src, scratch, api, sidebar, generated_md_files, pre, published>>

\* generate_wiki_sidebar returns normally and main returns: exit status 0.
Sidebar ==
    /\ pc = "sidebar"
    /\ sidebar' = WriteFile(sidebar, SidebarContent(generated_md_files))
    /\ pc' = "done"
    /\ exitCode' = ExitOf(pc')
    /\ calls' = Log("generate_wiki_sidebar", TRUE)
    /\ UNCHANGED <<runs, argv, src, scratch, api, home, generated_md_files, pre, published>>

SidebarFails ==
    /\ pc = "sidebar"
    /\ sidebar' \in {sidebar, Truncated}
    /\ pc' = OnStepError("done")
    /\ exitCode' = ExitOf(pc')
    /\ calls' = Log("generate_wiki_sidebar", FALSE)
    /\ UNCHANGED <<runs, argv, src, scratch, api, home, generated_md_files, pre, published>>

Next ==
    \/ Script
    \/ Generate \/ GenerateRmtreeFails \/ GenerateRenderFails
    \/ Clear \/ ClearFails
    \/ Copy \/ CopyFails
    \/ Home \/ HomeFails
    \/ Sidebar \/ SidebarFails

Spec == Init /\ [][Next]_vars

(* ------------------------------ properties ------------------------------ *)

FnGenerate == "run_pydoc_markdown_programmatic"
Order ==
    <<FnGenerate, "clear_wiki_api_directory", "copy_generated_docs_to_wiki",
      "generate_wiki_home", "generate_wiki_sidebar">>

\* The entries of directory d that are regular files named "....md".
Pages(d) ==
    {n \in DOMAIN d.entries :
        /\ d.entries[n].kind = "file"
        /\ Len(n) >= 3
        /\ n[Len(n) - 2] = 46 /\ n[Len(n) - 1] = 109 /\ n[Len(n)] = 100}

\* The module list entries of an index file, in file order.
IsItem(l) == "target" \in DOMAIN l
ItemsOf(f) == SelectSeq(f.lines, IsItem)
Count(s, x) == Cardinality({i \in 1..Len(s) : s[i] = x})

\* The page file name a list entry links to: its target without "api/".
LinkedFile(l) == SubSeq(l.target, 5, Len(l.target))

GenerateFailed == Len(calls) >= 1 /\ calls[1].fn = FnGenerate /\ ~calls[1].ok
WikiAsBefore == api = pre.api /\ home = pre.home /\ sidebar = pre.sidebar

\* C1 (fail-before-mutate): when run_pydoc_markdown_programmatic raises, the
\* process exits with status 1, the API subdirectory, Home.md and _Sidebar.md
\* are as they were before the run, and no later step is ever called.
C1_FailBeforeMutate ==
    GenerateFailed =>
        /\ pc = "failed" /\ exitCode = 1
        /\ Len(calls) = 1
        /\ WikiAsBefore

C1_Witness ==
    /\ GenerateFailed /\ pc = "failed"
    /\ api = StaleDir /\ home = HandWritten /\ sidebar = HandWritten
    /\ scratch.exists /\ DOMAIN scratch.entries # {}

\* C2 (full replacement): once clear_wiki_api_directory and
\* copy_generated_docs_to_wiki have run, the API subdirectory holds exactly the
\* scratch entries that are regular ".md" files, with their content, and these
\* are the names returned, each once; an older file such as z.md is gone.
C2_FullReplacement ==
    pc = "home" =>
        /\ api.exists
        /\ DOMAIN api.entries = Pages(scratch)
        /\ \A n \in DOMAIN api.entries : api.entries[n] = scratch.entries[n]
        /\ SeqToSet(generated_md_files) = Pages(scratch)
        /\ Len(generated_md_files) = Cardinality(Pages(scratch))

C2_Witness ==
    /\ pc = "home"
    /\ pre.api.exists /\ NameZ \in DOMAIN pre.api.entries
    /\ generated_md_files # <<>>
    /\ NameTxt \in DOMAIN scratch.entries

\* C3 as claimed: the list entries of Home.md and _Sidebar.md are in ascending
\* code-point order of the display name (the file name without ".md").
C3_SortedByDisplayName ==
    /\ pc \in {"sidebar", "done"} =>
         \A i, j \in 1..Len(ItemsOf(home)) :
            i < j => StrLess(ItemsOf(home)[i].text, ItemsOf(home)[j].text)
    /\ pc = "done" =>
         \A i, j \in 1..Len(ItemsOf(sidebar)) :
            i < j => StrLess(ItemsOf(sidebar)[i].text, ItemsOf(sidebar)[j].text)

\* C3 (amended): the list entries of Home.md and _Sidebar.md are in ascending
\* code-point order of the page file name, extension included, whatever the
\* order of the list passed in.
C3_SortedByFileName ==
    /\ pc \in {"sidebar", "done"} =>
         \A i, j \in 1..Len(ItemsOf(home)) :
            i < j => StrLess(LinkedFile(ItemsOf(home)[i]), LinkedFile(ItemsOf(home)[j]))
    /\ pc = "done" =>
         \A i, j \in 1..Len(ItemsOf(sidebar)) :
            i < j => StrLess(LinkedFile(ItemsOf(sidebar)[i]), LinkedFile(ItemsOf(sidebar)[j]))

C3_Witness ==
    /\ pc = "done"
    /\ Len(generated_md_files) = 2
    /\ StrLess(generated_md_files[2], generated_md_files[1])
    /\ Len(ItemsOf(home)) = 2 /\ Len(ItemsOf(sidebar)) = 2

\* C4 (empty set): when the generator succeeds and no page is published, the
\* run is not ended for that (it fails only if a step raises); it ends with
\* exit status 0, and Home.md and _Sidebar.md each hold their placeholder line,
\* once, and no list entry.
C4_EmptySet ==
    /\ (calls # <<>> /\ calls[1].ok /\ Pages(scratch) = {}) =>
          (pc = "failed" => ~calls[Len(calls)].ok)
    /\ (pc = "done" /\ Pages(scratch) = {}) =>
          /\ exitCode = 0
          /\ home.exists /\ ItemsOf(home) = <<>> /\ Count(home.lines, HomePlaceholder) = 1
          /\ sidebar.exists /\ ItemsOf(sidebar) = <<>>
          /\ Count(sidebar.lines, SidebarPlaceholder) = 1

C4_Witness ==
    /\ pc = "done" /\ exitCode = 0
    /\ scratch.exists /\ DOMAIN scratch.entries = {NameTxt, NameDirD}
    /\ Count(home.lines, HomePlaceholder) = 1

\* C5 (idempotence): a successful run on the source tree of the successful run
\* right before it leaves the API subdirectory, Home.md and _Sidebar.md as that
\* run left them.
C5_Idempotent ==
    (pc = "done" /\ published.valid) =>
        /\ api = published.api
        /\ home = published.home
        /\ sidebar = published.sidebar

C5_Witness ==
    /\ pc = "done" /\ published.valid
    /\ Len(generated_md_files) = 2
    /\ api = published.api

\* C6 (link form): after a successful run every file f of the API subdirectory
\* has exactly one list entry in Home.md, with target "api/" + f and text f
\* without ".md"; there is no other entry, and _Sidebar.md has the same list.
C6_LinkForm ==
    pc = "done" =>
        /\ \A f \in DOMAIN api.entries :
              /\ Count(ItemsOf(home), [text |-> SubSeq(f, 1, Len(f) - 3),
                                       target |-> <<97, 112, 105, 47>> \o f]) = 1
              /\ SubSeq(f, 1, Len(f) - 3) \o <<46, 109, 100>> = f
        /\ Len(ItemsOf(home)) = Cardinality(DOMAIN api.entries)
        /\ ItemsOf(sidebar) = ItemsOf(home)

C6_Witness ==
    /\ pc = "done"
    /\ DOMAIN api.entries = {NameA, NameUpB}
    /\ Len(ItemsOf(sidebar)) = 2

\* C7 (usage errors): started without an argument, or with one that is not a
\* directory, the script exits with status 1 in that very step: main is not
\* called and scratch directory, API subdirectory, Home.md and _Sidebar.md stay.
C7_UsageError ==
    [][(runs' # runs /\ argv' \in {"none", "notdir"}) =>
          /\ pc' = "failed" /\ exitCode' = 1
          /\ calls' = <<>>
          /\ UNCHANGED <<scratch, api, home, sidebar>>]_vars

C7_Witness ==
    /\ argv = "notdir" /\ pc = "failed" /\ exitCode = 1 /\ calls = <<>>
    /\ scratch = StaleDir /\ api = StaleDir

\* C8 (no stale scratch leakage): after the generator step the scratch
\* directory holds only what the generator wrote in this run, so the pages
\* copied, returned and listed in the index files are among them; if the
\* generator created no directory, nothing is published.
C8_NoStaleLeak ==
    /\ pc \in {"clear", "copy", "home", "sidebar", "done"} =>
          /\ DOMAIN scratch.entries = src.names
          /\ scratch.exists = src.mkdir
    /\ pc \in {"home", "sidebar", "done"} =>
          /\ DOMAIN api.entries \subseteq src.names
          /\ SeqToSet(generated_md_files) \subseteq src.names
    /\ pc = "done" =>
          \A i \in 1..Len(ItemsOf(home)) : LinkedFile(ItemsOf(home)[i]) \in src.names

C8_Witness ==
    /\ pc = "done" /\ pre.stalePage
    /\ ~src.mkdir /\ ~scratch.exists /\ DOMAIN api.entries = {}

\* C9 (step order, no rollback): the steps are called in the order generate,
\* clear, copy, Home.md, _Sidebar.md, each only after the one before returned
\* normally; a failing step is the last one, the exit status is then 1, and
\* what the earlier steps did stays: after a failure writing an index file the
\* API subdirectory is the replaced one, and an index file whose step was not
\* reached is as before the run.
C9_StepOrder ==
    /\ Len(calls) <= 5
    /\ \A i \in 1..Len(calls) : calls[i].fn = Order[i]
    /\ \A i \in 1..(Len(calls) - 1) : calls[i].ok
    /\ (calls # <<>> /\ ~calls[Len(calls)].ok) => (pc = "failed" /\ exitCode = 1)
    /\ (calls # <<>> /\ calls[Len(calls)].ok) =>
          pc = <<"clear", "copy", "home", "sidebar", "done">>[Len(calls)]
    /\ (Len(calls) \in {4, 5} /\ ~calls[Len(calls)].ok) =>
          /\ api.exists
          /\ DOMAIN api.entries = Pages(scratch)
    /\ (Len(calls) \in {1, 2, 3} /\ ~calls[Len(calls)].ok) => home = pre.home
    /\ (Len(calls) \in {1, 2, 3, 4} /\ ~calls[Len(calls)].ok) => sidebar = pre.sidebar
    /\ (Len(calls) = 5 /\ ~calls[5].ok) =>
          home = [exists |-> TRUE, lines |-> HomeContent(generated_md_files)]

C9_Witness ==
    /\ pc = "failed" /\ exitCode = 1
    /\ Len(calls) = 4 /\ ~calls[4].ok
    /\ home = HandWritten /\ sidebar = HandWritten
    /\ pre.api = StaleDir /\ DOMAIN api.entries = {NameA, NameAB}

\* The wiki a successful run on tree s leaves in an empty checkout.
FreshPages(s) == Pages([exists |-> TRUE, entries |-> Rendered(s)])
FreshApi(s) == [exists |-> TRUE, entries |-> [n \in FreshPages(s) |-> RegFile(1)]]

\* C10 (history independence): after a successful run the API subdirectory,
\* Home.md and _Sidebar.md are those a run on an empty checkout produces from
\* the same generator output, whatever earlier (also aborted) runs left.
C10_HistoryIndependent ==
    pc = "done" =>
        /\ api = FreshApi(src)
        /\ \E order \in Perms(FreshPages(src)) :
              /\ home = WriteFile(Absent, HomeContent(order))
              /\ sidebar = WriteFile(Absent, SidebarContent(order))

C10_Witness ==
    /\ pc = "done" /\ runs = 2
    /\ pre.home = Truncated /\ pre.sidebar = HandWritten
    /\ pre.api.exists /\ DOMAIN pre.api.entries = {NameAB}
    /\ src.names = {NameA, NameTxt}

====
